---- MODULE Spec2Model ----
(***************************************************************************)
(* A model of src/bridgetree.rs: the BridgeTree append-only Merkle tree    *)
(* with witnesses, checkpoints and rewind.                                 *)
(*                                                                         *)
(* Conventions.  Rust indices and positions are 0-based and are kept       *)
(* 0-based here; Rust vectors are TLA+ sequences, so the element with Rust *)
(* index i of a vector s is At(s, i) = s[i + 1].  Option<T> is a sequence  *)
(* of length at most one: None = <<>>, Some(x) = <<x>>.  A HashMap is a    *)
(* function whose domain is its key set.                                   *)
(*                                                                         *)
(* Digests (the type H) are terms of the free algebra of the Hashable      *)
(* interface: a leaf value is a 1-tuple <<"a">>, combine(l, x, y) is the   *)
(* 3-tuple <<l, x, y>>.  Two digests are equal exactly when they were      *)
(* built by the same combine calls on the same leaves, so every equality   *)
(* proved here holds for every deterministic hash.                         *)
(***************************************************************************)
EXTENDS Integers, Sequences, FiniteSets, TLC

\* ------------------------------------------------------------------ bounds

\* DEPTH: the const generic parameter of BridgeTree<H, DEPTH>.
DEPTH == 3

\* The argument of BridgeTree::new: the tree keeps this many checkpoints.
MaxCheckpoints == 1

\* The caller stops calling witness once the tree holds this many bridges.
MaxBridges == 3

\* A caller appends a leaf value that is new to the tree, or repeats a value
\* the tree holds already; at most this many leaves of a tree are repeats.
MaxRepeats == 1

\* The callers of SpecRec and SpecCk stop appending, to the tree and to a
\* recording, at this many leaves.
MaxRecorded == 2

\* A caller that plays a recording back at once stages at most this many
\* appends in it.
MaxStaged == 2

\* A caller that counts positions starts from one of the first MaxSmall
\* positions or just below a power of two up to 2^MaxBits, and increments at
\* most MaxSteps times.
MaxSmall == 64

MaxSteps == 4

MaxBits == 28

\* The leaf values, by the position at which a new value is appended first.
Names == <<"a", "b", "c", "d", "e", "f", "g", "h",
           "i", "j", "k", "l", "m", "n", "o", "p">>

\* ------------------------------------------------------- program constants

\* usize is 64 bits wide; all_altitudes_required iterates over 0..64.
AltitudeLimit == 64

\* max_altitude computes 63 - leading_zeros.
TopBit == 63

\* --------------------------------------------------------------- helpers

None == <<>>

Some(x) == <<x>>

At(s, i) == s[i + 1]

Min(a, b) == IF a < b THEN a ELSE b

\* The Rust range a..b as an ascending sequence.
Range(a, b) == [k \in 1..(IF b > a THEN b - a ELSE 0) |-> a + k - 1]

Pow2(n) == 2 ^ n

\* self.0 & (1 << i) != 0.  Positions stay below 2^30, so every bit at
\* index 30 or above is clear; the test short-circuits there because the
\* model checker's integers are 32 bits wide.
BitSet(p, i) == IF i >= 30 THEN FALSE ELSE (p \div Pow2(i)) % 2 = 1

\* ------------------------------------------------------- Hashable (lib.rs)

combine(l, x, y) == <<l, x, y>>

empty_leaf == <<"_">>

RECURSIVE empty_root(_)
empty_root(l) ==
    IF l = 0 THEN empty_leaf
    ELSE combine(l - 1, empty_root(l - 1), empty_root(l - 1))

\* fold(d, |d, l| combine(l, d, empty_root(l))) over the altitudes from..to-1
RECURSIVE pad_right(_, _, _)
pad_right(d, from, to) ==
    IF from >= to THEN d
    ELSE pad_right(combine(from, d, empty_root(from)), from + 1, to)

\* ---------------------------------------------------------------- Position

\* The number of binary digits of p (0 for p = 0).
RECURSIVE bit_length(_)
bit_length(p) == IF p = 0 THEN 0 ELSE 1 + bit_length(p \div 2)

\* usize::leading_zeros
leading_zeros(p) == AltitudeLimit - bit_length(p)

\* A slip: the number of binary digits is taken as the altitude.
max_altitude_digits(p) == IF p = 0 THEN 0 ELSE AltitudeLimit - leading_zeros(p)

max_altitude(p) == IF p = 0 THEN 0 ELSE TopBit - leading_zeros(p)

ommer_altitudes(p) ==
    SelectSeq(Range(0, max_altitude(p) + 1),
              LAMBDA i : i # 0 /\ BitSet(p, i))

altitudes_required(p) ==
    SelectSeq(Range(0, max_altitude(p) + 2),
              LAMBDA i : p = 0 \/ ~BitSet(p, i))

altitudes_required_count(p) == Len(altitudes_required(p))

all_altitudes_required(p) ==
    SelectSeq(Range(0, AltitudeLimit),
              LAMBDA i : p = 0 \/ ~BitSet(p, i))

is_complete(p, to_altitude) ==
    \A i \in 0..(to_altitude - 1) : BitSet(p, i)

\* -------------------------------------------------------------------- Leaf

Left(a) == <<"Left", a>>

Right(a, b) == <<"Right", a, b>>

IsLeft(leaf) == leaf[1] = "Left"

\* -------------------------------------------------------- NonEmptyFrontier

NonEmptyFrontier_new(value) ==
    [position |-> 0, leaf |-> Left(value), ommers |-> <<>>]

frontier_size(f) == f.position + 1

\* A slip: the left leaf of a pair is taken as the most recent one.
leaf_value_left(f) == f.leaf[2]

leaf_value(f) == IF IsLeft(f.leaf) THEN f.leaf[2] ELSE f.leaf[3]

\* A slip: a carry left when the loop ends is not pushed.
RECURSIVE append_ommers_drops_carry(_, _, _, _, _)
append_ommers_drops_carry(ommers, alts, k, carry, acc) ==
    IF k > Min(Len(ommers), Len(alts))
    THEN acc
    ELSE IF carry # None
         THEN IF carry[1][2] = alts[k]
              THEN append_ommers_drops_carry(ommers, alts, k + 1,
                       Some(<<combine(alts[k], ommers[k], carry[1][1]), alts[k] + 1>>),
                       acc)
              ELSE append_ommers_drops_carry(ommers, alts, k + 1, None,
                       Append(Append(acc, carry[1][1]), ommers[k]))
         ELSE append_ommers_drops_carry(ommers, alts, k + 1, None,
                                        Append(acc, ommers[k]))

\* The loop of append over zip(ommers, ommer_altitudes(position)), from pair
\* k on: carry is None or Some(<<digest, altitude>>), acc the new ommers.
RECURSIVE append_ommers(_, _, _, _, _)
append_ommers(ommers, alts, k, carry, acc) ==
    IF k > Min(Len(ommers), Len(alts))
    THEN IF carry # None THEN Append(acc, carry[1][1]) ELSE acc
    ELSE IF carry # None
         THEN IF carry[1][2] = alts[k]
              THEN append_ommers(ommers, alts, k + 1,
                       Some(<<combine(alts[k], ommers[k], carry[1][1]), alts[k] + 1>>),
                       acc)
              ELSE append_ommers(ommers, alts, k + 1, None,
                       Append(Append(acc, carry[1][1]), ommers[k]))
         ELSE append_ommers(ommers, alts, k + 1, None, Append(acc, ommers[k]))

frontier_append(f, value) ==
    IF IsLeft(f.leaf)
    THEN [position |-> f.position + 1,
          leaf     |-> Right(f.leaf[2], value),
          ommers   |-> f.ommers]
    ELSE [position |-> f.position + 1,
          leaf     |-> Left(value),
          ommers   |-> append_ommers(f.ommers, ommer_altitudes(f.position), 1,
                           Some(<<combine(0, f.leaf[2], f.leaf[3]), 1>>), <<>>)]

\* The loop of inner_root from pair k on; result_lvl is an Option.
RECURSIVE inner_root_loop(_, _, _, _, _, _)
inner_root_loop(ommers, alts, k, digest, complete_lvl, result_lvl) ==
    IF k > Min(Len(ommers), Len(alts))
       \/ (\E rl \in {result_lvl[j] : j \in DOMAIN result_lvl} :
               rl = complete_lvl \/ alts[k] >= rl)
    THEN pad_right(digest, complete_lvl,
                   IF result_lvl = None THEN complete_lvl ELSE result_lvl[1])
    ELSE inner_root_loop(ommers, alts, k + 1,
             combine(alts[k], ommers[k], pad_right(digest, complete_lvl, alts[k])),
             alts[k] + 1, result_lvl)

inner_root(position, leaf, ommers, result_lvl) ==
    inner_root_loop(ommers, ommer_altitudes(position), 1,
        IF IsLeft(leaf) THEN combine(0, leaf[2], empty_leaf)
                        ELSE combine(0, leaf[2], leaf[3]),
        1, result_lvl)

frontier_root(f) == inner_root(f.position, f.leaf, f.ommers, None)

\* self.ommers.split_last().map_or(&[], |(_, s)| s)
all_but_last(s) == IF Len(s) = 0 THEN <<>> ELSE SubSeq(s, 1, Len(s) - 1)

\* A slip: the left leaf of the pair is taken as the sibling at altitude 0.
frontier_witness_left(f, sibling_altitude) ==
    IF sibling_altitude = 0
    THEN IF IsLeft(f.leaf) THEN None ELSE Some(f.leaf[2])
    ELSE IF is_complete(f.position, sibling_altitude)
         THEN Some(inner_root(f.position, f.leaf, all_but_last(f.ommers),
                              Some(sibling_altitude)))
         ELSE None

frontier_witness(f, sibling_altitude) ==
    IF sibling_altitude = 0
    THEN IF IsLeft(f.leaf) THEN None ELSE Some(f.leaf[3])
    ELSE IF is_complete(f.position, sibling_altitude)
         THEN Some(inner_root(f.position, f.leaf, all_but_last(f.ommers),
                              Some(sibling_altitude)))
         ELSE None

\* A slip: the incomplete subtree is taken to be empty.
witness_incomplete_empty(f, altitude) ==
    IF is_complete(f.position, altitude)
    THEN None
    ELSE Some(IF altitude = 0 THEN empty_leaf ELSE empty_root(altitude))

witness_incomplete(f, altitude) ==
    IF is_complete(f.position, altitude)
    THEN None
    ELSE Some(IF altitude = 0 THEN empty_leaf
              ELSE inner_root(f.position, f.leaf, all_but_last(f.ommers),
                              Some(altitude)))

\* ------------------------------------------------------------ AuthFragment

AuthFragment_new(position) ==
    [position |-> position, altitudes_observed |-> 0, values |-> <<>>]

fragment_successor(f) ==
    [position |-> f.position,
     altitudes_observed |-> f.altitudes_observed,
     values |-> <<>>]

fragment_is_complete(f) ==
    f.altitudes_observed >= altitudes_required_count(f.position)

\* A slip: altitudes_required is asked in place of all_altitudes_required.
next_required_altitude_short(f) ==
    LET alts == altitudes_required(f.position)
    IN  IF f.altitudes_observed < Len(alts)
        THEN Some(At(alts, f.altitudes_observed))
        ELSE None

\* all_altitudes_required().nth(altitudes_observed)
next_required_altitude(f) ==
    LET alts == all_altitudes_required(f.position)
    IN  IF f.altitudes_observed < Len(alts)
        THEN Some(At(alts, f.altitudes_observed))
        ELSE None

fragment_fuse(self, other) ==
    IF self.position = other.position
       /\ self.altitudes_observed + Len(other.values) = other.altitudes_observed
    THEN Some([position |-> self.position,
               altitudes_observed |-> other.altitudes_observed,
               values |-> self.values \o other.values])
    ELSE None

\* A slip: the count of observed altitudes is not advanced.
augment_uncounted(f, frontier) ==
    LET altitude == next_required_altitude(f)
    IN  IF altitude = None THEN f
        ELSE LET digest == frontier_witness(frontier, altitude[1])
             IN  IF digest = None THEN f
                 ELSE [f EXCEPT !.values = Append(@, digest[1])]

augment(f, frontier) ==
    LET altitude == next_required_altitude(f)
    IN  IF altitude = None THEN f
        ELSE LET digest == frontier_witness(frontier, altitude[1])
             IN  IF digest = None THEN f
                 ELSE [f EXCEPT !.values = Append(@, digest[1]),
                                !.altitudes_observed = @ + 1]

\* ------------------------------------------------------------ MerkleBridge

MerkleBridge_new(value) ==
    [prior_position |-> None,
     auth_fragments |-> [k \in {} |-> AuthFragment_new(0)],
     frontier       |-> NonEmptyFrontier_new(value)]

successor(b, cur_idx) ==
    [prior_position |-> Some(b.frontier.position),
     auth_fragments |->
         [k \in DOMAIN b.auth_fragments \cup {cur_idx} |->
             IF k = cur_idx THEN AuthFragment_new(b.frontier.position)
             ELSE fragment_successor(b.auth_fragments[k])],
     frontier       |-> b.frontier]

bridge_append(b, value) ==
    LET f == frontier_append(b.frontier, value)
    IN  [prior_position |-> b.prior_position,
         auth_fragments |->
             [k \in DOMAIN b.auth_fragments |-> augment(b.auth_fragments[k], f)],
         frontier       |-> f]

bridge_root(b) == frontier_root(b.frontier)

can_follow(self, prev) ==
    \A j \in DOMAIN self.prior_position :
        self.prior_position[j] = prev.frontier.position

\* The outcome of an operation that ran into a Rust panic (expect, or an
\* index out of range).
Panic == <<"panic", "panic">>

\* A slip: the fused bridge keeps the frontier of self.
bridge_fuse_keeps_frontier(self, next) ==
    IF ~can_follow(next, self) THEN None
    ELSE IF \E k \in DOMAIN self.auth_fragments \cap DOMAIN next.auth_fragments :
                fragment_fuse(self.auth_fragments[k], next.auth_fragments[k]) = None
         THEN Panic
         ELSE Some([prior_position |-> self.prior_position,
                    auth_fragments |->
                        [k \in DOMAIN self.auth_fragments |->
                            IF k \in DOMAIN next.auth_fragments
                            THEN fragment_fuse(self.auth_fragments[k],
                                               next.auth_fragments[k])[1]
                            ELSE self.auth_fragments[k]],
                    frontier |-> self.frontier])

\* fuse: None when next cannot follow self, Panic when the expect on a
\* fragment fuse fails, Some(fused) otherwise.
bridge_fuse(self, next) ==
    IF ~can_follow(next, self) THEN None
    ELSE IF \E k \in DOMAIN self.auth_fragments \cap DOMAIN next.auth_fragments :
                fragment_fuse(self.auth_fragments[k], next.auth_fragments[k]) = None
         THEN Panic
         ELSE Some([prior_position |-> self.prior_position,
                    auth_fragments |->
                        [k \in DOMAIN self.auth_fragments |->
                            IF k \in DOMAIN next.auth_fragments
                            THEN fragment_fuse(self.auth_fragments[k],
                                               next.auth_fragments[k])[1]
                            ELSE self.auth_fragments[k]],
                    frontier |-> next.frontier])

\* iter.fold(first.cloned(), |acc, b| acc?.fuse(b)) from element k on
RECURSIVE fuse_fold(_, _, _)
fuse_fold(acc, bs, k) ==
    IF k > Len(bs) \/ acc = None \/ acc = Panic THEN acc
    ELSE fuse_fold(bridge_fuse(acc[1], bs[k]), bs, k + 1)

fuse_all(bs) ==
    IF Len(bs) = 0 THEN None ELSE fuse_fold(Some(bs[1]), bs, 2)

\* -------------------------------------------------------------- Checkpoint

Empty == <<"Empty">>

AtIndex(i, bridge) == <<"AtIndex", i, bridge>>

\* -------------------------------------------------------------- BridgeTree
\* A tree value is a record [bridges, saved, checkpoints, max_checkpoints];
\* every mutating operation returns [tree, ret, panic].  The fields
\* ser_version and incomplete_from are written by new only and never read.

BridgeTree_new(max_checkpoints) ==
    [bridges |-> <<>>, saved |-> [v \in {} |-> 0], checkpoints |-> <<>>,
     max_checkpoints |-> max_checkpoints]

Last(s) == s[Len(s)]

Result(t, r) == [tree |-> t, ret |-> r, panic |-> FALSE]

\* A slip: the newest checkpoint is dropped.
drop_newest_checkpoint(t) ==
    IF Len(t.checkpoints) = 0 THEN Result(t, FALSE)
    ELSE Result([t EXCEPT !.checkpoints = SubSeq(@, 1, Len(@) - 1)], TRUE)

drop_oldest_checkpoint(t) ==
    IF Len(t.checkpoints) = 0 THEN Result(t, FALSE)
    ELSE Result([t EXCEPT !.checkpoints = Tail(@)], TRUE)

\* A slip: saturation is tested one altitude too high.
tree_append_late(t, value) ==
    IF Len(t.bridges) > 0
    THEN IF is_complete(Last(t.bridges).frontier.position, DEPTH + 1)
         THEN Result(t, FALSE)
         ELSE Result([t EXCEPT !.bridges[Len(t.bridges)] = bridge_append(@, value)],
                     TRUE)
    ELSE Result([t EXCEPT !.bridges = <<MerkleBridge_new(value)>>], TRUE)

tree_append(t, value) ==
    IF Len(t.bridges) > 0
    THEN IF is_complete(Last(t.bridges).frontier.position, DEPTH)
         THEN Result(t, FALSE)
         ELSE Result([t EXCEPT !.bridges[Len(t.bridges)] = bridge_append(@, value)],
                     TRUE)
    ELSE Result([t EXCEPT !.bridges = <<MerkleBridge_new(value)>>], TRUE)

\* A slip: the padding starts one altitude too low.
tree_root_low(t) ==
    IF Len(t.bridges) = 0 THEN empty_root(DEPTH)
    ELSE LET bridge == Last(t.bridges)
         IN  pad_right(bridge_root(bridge),
                       max_altitude(bridge.frontier.position), DEPTH)

tree_root(t) ==
    IF Len(t.bridges) = 0 THEN empty_root(DEPTH)
    ELSE LET bridge == Last(t.bridges)
         IN  pad_right(bridge_root(bridge),
                       max_altitude(bridge.frontier.position) + 1, DEPTH)

\* A slip: the duplicate frontier is not recognised.
tree_witness_always_pushes(t) ==
    IF Len(t.bridges) = 0 THEN Result(t, FALSE)
    ELSE LET blen     == Len(t.bridges)
             current  == Last(t.bridges)
             leaf     == leaf_value(current.frontier)
             succ     == successor(current, blen - 1)
             save_idx == blen - 1
             saved1   ==
                 IF leaf \in DOMAIN t.saved THEN t.saved
                 ELSE [v \in DOMAIN t.saved \cup {leaf} |->
                          IF v = leaf THEN save_idx ELSE t.saved[v]]
         IN  Result([t EXCEPT !.saved = saved1, !.bridges = Append(@, succ)], TRUE)

\* A slip: a duplicate frontier is saved under the index of the last bridge.
tree_witness_saves_last(t) ==
    IF Len(t.bridges) = 0 THEN Result(t, FALSE)
    ELSE LET blen     == Len(t.bridges)
             current  == Last(t.bridges)
             leaf     == leaf_value(current.frontier)
             is_duplicate_frontier ==
                 blen > 1 /\ At(t.bridges, blen - 1).frontier
                               = At(t.bridges, blen - 2).frontier
             saved1   ==
                 IF leaf \in DOMAIN t.saved THEN t.saved
                 ELSE [v \in DOMAIN t.saved \cup {leaf} |->
                          IF v = leaf THEN blen - 1 ELSE t.saved[v]]
         IN  Result([t EXCEPT !.saved = saved1,
                              !.bridges = IF is_duplicate_frontier THEN @
                                          ELSE Append(@, successor(current, blen - 1))],
                    TRUE)

\* A slip: a leaf that is saved already is refused.
tree_witness_refuses_saved(t) ==
    IF Len(t.bridges) = 0 THEN Result(t, FALSE)
    ELSE LET blen     == Len(t.bridges)
             current  == Last(t.bridges)
             leaf     == leaf_value(current.frontier)
             is_duplicate_frontier ==
                 blen > 1 /\ At(t.bridges, blen - 1).frontier
                               = At(t.bridges, blen - 2).frontier
         IN  IF leaf \in DOMAIN t.saved THEN Result(t, FALSE)
             ELSE Result([t EXCEPT
                             !.saved = [v \in DOMAIN t.saved \cup {leaf} |->
                                           IF v = leaf
                                           THEN (IF is_duplicate_frontier
                                                 THEN blen - 2 ELSE blen - 1)
                                           ELSE t.saved[v]],
                             !.bridges = IF is_duplicate_frontier THEN @
                                         ELSE Append(@, successor(current, blen - 1))],
                         TRUE)

\* A slip: the successor bridge is never pushed.
tree_witness_no_successor(t) ==
    IF Len(t.bridges) = 0 THEN Result(t, FALSE)
    ELSE LET blen == Len(t.bridges)
             leaf == leaf_value(Last(t.bridges).frontier)
             saved1 ==
                 IF leaf \in DOMAIN t.saved THEN t.saved
                 ELSE [v \in DOMAIN t.saved \cup {leaf} |->
                          IF v = leaf THEN blen - 1 ELSE t.saved[v]]
         IN  Result([t EXCEPT !.saved = saved1], TRUE)

\* A slip: the index of the pushed bridge is saved.
tree_witness_saves_next(t) ==
    IF Len(t.bridges) = 0 THEN Result(t, FALSE)
    ELSE LET blen     == Len(t.bridges)
             current  == Last(t.bridges)
             leaf     == leaf_value(current.frontier)
             succ     == successor(current, blen - 1)
             is_duplicate_frontier ==
                 blen > 1 /\ At(t.bridges, blen - 1).frontier
                               = At(t.bridges, blen - 2).frontier
             saved1   ==
                 IF leaf \in DOMAIN t.saved THEN t.saved
                 ELSE [v \in DOMAIN t.saved \cup {leaf} |->
                          IF v = leaf
                          THEN (IF is_duplicate_frontier THEN blen - 1 ELSE blen)
                          ELSE t.saved[v]]
         IN  Result([t EXCEPT !.saved = saved1,
                              !.bridges = IF is_duplicate_frontier THEN @
                                          ELSE Append(@, succ)],
                    TRUE)

tree_witness(t) ==
    IF Len(t.bridges) = 0 THEN Result(t, FALSE)
    ELSE LET blen     == Len(t.bridges)
             current  == Last(t.bridges)
             leaf     == leaf_value(current.frontier)
             succ     == successor(current, blen - 1)
             save_idx == blen - 1
             is_duplicate_frontier ==
                 blen > 1 /\ At(t.bridges, blen - 1).frontier
                               = At(t.bridges, blen - 2).frontier
             saved1   ==
                 IF leaf \in DOMAIN t.saved THEN t.saved
                 ELSE [v \in DOMAIN t.saved \cup {leaf} |->
                          IF v = leaf
                          THEN (IF is_duplicate_frontier THEN save_idx - 1
                                                         ELSE save_idx)
                          ELSE t.saved[v]]
         IN  Result([t EXCEPT !.saved = saved1,
                              !.bridges = IF is_duplicate_frontier THEN @
                                          ELSE Append(@, succ)],
                    TRUE)

\* A slip: every saved entry is dropped.
remove_witness_all(t, value) ==
    IF value \in DOMAIN t.saved
    THEN Result([t EXCEPT !.saved = [v \in {} |-> 0]], TRUE)
    ELSE Result(t, FALSE)

remove_witness(t, value) ==
    IF value \in DOMAIN t.saved
    THEN Result([t EXCEPT !.saved = [v \in DOMAIN t.saved \ {value} |-> t.saved[v]]],
                TRUE)
    ELSE Result(t, FALSE)
\* A slip: the checkpoint records bridges.len() as its index.
checkpoint_at_len(t) ==
    LET pushed == [t EXCEPT !.checkpoints =
                       Append(@, IF Len(t.bridges) = 0 THEN Empty
                                 ELSE AtIndex(Len(t.bridges), Last(t.bridges)))]
    IN  IF Len(pushed.checkpoints) > t.max_checkpoints
        THEN drop_oldest_checkpoint(pushed).tree
        ELSE pushed


checkpoint(t) ==
    LET pushed == [t EXCEPT !.checkpoints =
                       Append(@, IF Len(t.bridges) = 0 THEN Empty
                                 ELSE AtIndex(Len(t.bridges) - 1, Last(t.bridges)))]
    IN  IF Len(pushed.checkpoints) > t.max_checkpoints
        THEN drop_oldest_checkpoint(pushed).tree
        ELSE pushed

Truncate(s, n) == IF Len(s) > n THEN SubSeq(s, 1, n) ELSE s

\* A slip: the entries at index i are dropped too.
Retain_below(saved, i) == [v \in {w \in DOMAIN saved : saved[w] < i} |-> saved[v]]

Retain(saved, i) == [v \in {w \in DOMAIN saved : saved[w] <= i} |-> saved[v]]

\* A slip: the rewound bridge is never given its successor back.
rewind_to_no_successor(t, popped, i, bridge) ==
    [bridges |-> [Truncate(t.bridges, i + 1) EXCEPT ![i + 1] = bridge],
     saved |-> Retain(t.saved, i),
     checkpoints |-> popped,
     max_checkpoints |-> t.max_checkpoints]

\* The branch of rewind taken once the guard has let the rewind through.
rewind_to(t, popped, i, bridge) ==
    LET truncated == Truncate(t.bridges, i + 1)
        saved1    == Retain(t.saved, i)
        replaced  == [truncated EXCEPT ![i + 1] = bridge]
        is_duplicate_frontier ==
            i > 0 /\ bridge.frontier = At(truncated, i - 1).frontier
    IN  [bridges |->
             IF leaf_value(bridge.frontier) \in DOMAIN saved1
                /\ ~is_duplicate_frontier
             THEN Append(replaced, successor(bridge, i))
             ELSE replaced,
         saved |-> saved1,
         checkpoints |-> popped,
         max_checkpoints |-> t.max_checkpoints]

\* A slip: a rewind refused for the saved leaves forgets to push the
\* checkpoint back.
rewind_drops_checkpoint(t) ==
    IF Len(t.checkpoints) = 0 THEN Result(t, FALSE)
    ELSE LET c      == Last(t.checkpoints)
             popped == SubSeq(t.checkpoints, 1, Len(t.checkpoints) - 1)
             failed == Result([t EXCEPT !.checkpoints = popped], FALSE)
         IN  IF c = Empty
             THEN IF DOMAIN t.saved = {}
                  THEN Result([t EXCEPT !.bridges = <<>>, !.checkpoints = popped],
                              TRUE)
                  ELSE failed
             ELSE LET i      == c[2]
                      bridge == c[3]
                  IN  IF \E v \in DOMAIN t.saved : t.saved[v] > i
                      THEN failed
                      ELSE IF i >= Len(t.bridges)
                           THEN [tree |-> t, ret |-> FALSE, panic |-> TRUE]
                           ELSE IF (\E v \in DOMAIN t.saved : t.saved[v] = i)
                                   /\ bridge.frontier # At(t.bridges, i).frontier
                                THEN failed
                                ELSE Result(rewind_to(t, popped, i, bridge), TRUE)

\* A slip: the moved-frontier test is left out of the guard.
rewind_ignores_frontier(t) ==
    IF Len(t.checkpoints) = 0 THEN Result(t, FALSE)
    ELSE LET c      == Last(t.checkpoints)
             popped == SubSeq(t.checkpoints, 1, Len(t.checkpoints) - 1)
         IN  IF c = Empty
             THEN IF DOMAIN t.saved = {}
                  THEN Result([t EXCEPT !.bridges = <<>>, !.checkpoints = popped],
                              TRUE)
                  ELSE Result(t, FALSE)
             ELSE LET i      == c[2]
                      bridge == c[3]
                  IN  IF \E v \in DOMAIN t.saved : t.saved[v] > i
                      THEN Result(t, FALSE)
                      ELSE IF i >= Len(t.bridges)
                           THEN [tree |-> t, ret |-> FALSE, panic |-> TRUE]
                           ELSE Result(rewind_to(t, popped, i, bridge), TRUE)

rewind(t) ==
    IF Len(t.checkpoints) = 0 THEN Result(t, FALSE)
    ELSE LET c      == Last(t.checkpoints)
             popped == SubSeq(t.checkpoints, 1, Len(t.checkpoints) - 1)
         IN  IF c = Empty
             THEN IF DOMAIN t.saved = {}
                  THEN Result([t EXCEPT !.bridges = <<>>, !.checkpoints = popped],
                              TRUE)
                  ELSE Result(t, FALSE)
             ELSE LET i      == c[2]
                      bridge == c[3]
                  IN  IF \E v \in DOMAIN t.saved : t.saved[v] > i
                      THEN Result(t, FALSE)
                      ELSE IF i >= Len(t.bridges)
                           THEN [tree |-> t, ret |-> FALSE, panic |-> TRUE]
                           ELSE IF (\E v \in DOMAIN t.saved : t.saved[v] = i)
                                   /\ bridge.frontier # At(t.bridges, i).frontier
                                THEN Result(t, FALSE)
                                ELSE Result(rewind_to(t, popped, i, bridge), TRUE)

\* The path vector of authentication_path: result so far, the auth_values
\* not yet consumed (av), the ommers of the witnessed frontier from pair k on.
RECURSIVE fill_to(_, _, _)
fill_to(result, av, lvl) ==
    IF Len(result) >= lvl THEN <<result, av>>
    ELSE IF Len(av) > 0
         THEN fill_to(Append(result, Head(av)), Tail(av), lvl)
         ELSE fill_to(Append(result, empty_root(Len(result))), av, lvl)

RECURSIVE path_loop(_, _, _, _, _)
path_loop(result, av, ommers, alts, k) ==
    IF k > Min(Len(ommers), Len(alts))
    THEN fill_to(result, av, DEPTH)[1]
    ELSE LET filled == fill_to(result, av, alts[k])
         IN  path_loop(Append(filled[1], ommers[k]), filled[2], ommers, alts, k + 1)

authentication_path(t, value) ==
    IF value \notin DOMAIN t.saved THEN None
    ELSE LET idx == t.saved[value]
         IN  IF idx >= Len(t.bridges) THEN Panic
             ELSE LET frontier == At(t.bridges, idx).frontier
                      fused    == fuse_all(SubSeq(t.bridges, idx + 2, Len(t.bridges)))
                  IN  IF fused = None \/ fused = Panic THEN fused
                      ELSE LET frags == fused[1].auth_fragments
                               rest_frontier == fused[1].frontier
                               auth_values ==
                                   IF idx \notin DOMAIN frags THEN <<>>
                                   ELSE LET last_altitude ==
                                                next_required_altitude(frags[idx])
                                            last_digest ==
                                                IF last_altitude = None THEN None
                                                ELSE witness_incomplete(rest_frontier,
                                                                        last_altitude[1])
                                        IN  frags[idx].values \o last_digest
                               first ==
                                   IF IsLeft(frontier.leaf)
                                   THEN IF Len(auth_values) > 0
                                        THEN <<<<Head(auth_values)>>, Tail(auth_values)>>
                                        ELSE <<<<empty_leaf>>, auth_values>>
                                   ELSE <<<<frontier.leaf[2]>>, auth_values>>
                           IN  Some(<<frontier.position,
                                      path_loop(first[1], first[2], frontier.ommers,
                                                ommer_altitudes(frontier.position), 1)>>)

\* A recording is a record [bridge]: the Option of its single bridge.
recording(t) ==
    [bridge |-> IF Len(t.bridges) = 0 THEN None ELSE Some(Last(t.bridges))]

\* A slip: an empty recording is refused on an empty tree too.
play_refuses_empty(t, rec) ==
    LET bridge_count == Len(t.bridges)
    IN  IF rec.bridge = None THEN Result(t, FALSE)
        ELSE IF bridge_count = 0
             THEN Result([t EXCEPT !.bridges = Append(@, rec.bridge[1])], TRUE)
             ELSE IF bridge_count = 1
                  THEN Result([t EXCEPT !.bridges[1] = rec.bridge[1]], TRUE)
                  ELSE IF can_follow(rec.bridge[1], At(t.bridges, bridge_count - 2))
                       THEN Result([t EXCEPT !.bridges[bridge_count] = rec.bridge[1]],
                                   TRUE)
                       ELSE Result(t, FALSE)

play(t, rec) ==
    LET bridge_count == Len(t.bridges)
    IN  IF bridge_count = 0
        THEN IF rec.bridge # None
             THEN Result([t EXCEPT !.bridges = Append(@, rec.bridge[1])], TRUE)
             ELSE Result(t, TRUE)
        ELSE IF rec.bridge # None
             THEN IF bridge_count = 1
                  THEN Result([t EXCEPT !.bridges[1] = rec.bridge[1]], TRUE)
                  ELSE IF can_follow(rec.bridge[1], At(t.bridges, bridge_count - 2))
                       THEN Result([t EXCEPT !.bridges[bridge_count] = rec.bridge[1]],
                                   TRUE)
                       ELSE Result(t, FALSE)
             ELSE Result(t, FALSE)

\* ---------------------------------------------------------- BridgeRecording
\* Recording::append returns [rec, ret].

\* A slip: the DEPTH cap is left out.
recording_append_uncapped(rec, value) ==
    IF rec.bridge # None
    THEN [rec |-> [bridge |-> Some(bridge_append(rec.bridge[1], value))],
          ret |-> TRUE]
    ELSE [rec |-> [bridge |-> Some(MerkleBridge_new(value))], ret |-> TRUE]

recording_append(rec, value) ==
    IF rec.bridge # None
    THEN IF is_complete(rec.bridge[1].frontier.position, DEPTH)
         THEN [rec |-> rec, ret |-> FALSE]
         ELSE [rec |-> [bridge |-> Some(bridge_append(rec.bridge[1], value))],
               ret |-> TRUE]
    ELSE [rec |-> [bridge |-> Some(MerkleBridge_new(value))], ret |-> TRUE]

\* ------------------------------------------------------------------ Frontier

Frontier_empty == [frontier |-> None]

\* Frontier::append: the frontier afterwards and the boolean returned.
Frontier_append(self, value) ==
    IF self.frontier # None
    THEN IF is_complete(self.frontier[1].position, DEPTH)
         THEN [front |-> self, ret |-> FALSE]
         ELSE [front |-> [frontier |-> Some(frontier_append(self.frontier[1], value))],
               ret |-> TRUE]
    ELSE [front |-> [frontier |-> Some(NonEmptyFrontier_new(value))], ret |-> TRUE]

\* A slip: the root of the frontier is not padded up to DEPTH.
Frontier_root_unpadded(self) ==
    IF self.frontier = None THEN empty_root(DEPTH)
    ELSE frontier_root(self.frontier[1])

Frontier_root(self) ==
    IF self.frontier = None THEN empty_root(DEPTH)
    ELSE pad_right(frontier_root(self.frontier[1]),
                   max_altitude(self.frontier[1].position) + 1, DEPTH)

\* A slip: a recording that holds no bridge is not played.
recording_play_keeps(self, other) ==
    IF self.bridge # None /\ other.bridge = None
    THEN [rec |-> self, ret |-> TRUE, panic |-> FALSE]
    ELSE IF self.bridge # None /\ other.bridge # None
         THEN LET fused == bridge_fuse(self.bridge[1], other.bridge[1])
              IN  IF fused = Panic
                  THEN [rec |-> self, ret |-> FALSE, panic |-> TRUE]
                  ELSE IF fused # None
                       THEN [rec |-> [bridge |-> fused], ret |-> TRUE,
                             panic |-> FALSE]
                       ELSE [rec |-> self, ret |-> FALSE, panic |-> FALSE]
         ELSE [rec |-> [bridge |-> other.bridge], ret |-> TRUE,
               panic |-> FALSE]

\* A slip: a recording that cannot follow is copied over self.
recording_play_overwrites(self, other) ==
    IF self.bridge # None /\ other.bridge # None
    THEN LET fused == bridge_fuse(self.bridge[1], other.bridge[1])
         IN  IF fused = Panic
             THEN [rec |-> self, ret |-> FALSE, panic |-> TRUE]
             ELSE IF fused # None
                  THEN [rec |-> [bridge |-> fused], ret |-> TRUE,
                        panic |-> FALSE]
                  ELSE [rec |-> other, ret |-> FALSE, panic |-> FALSE]
    ELSE [rec |-> [bridge |-> other.bridge], ret |-> TRUE,
          panic |-> FALSE]

\* BridgeRecording::play: the recording self after playing other into
\* it, the boolean returned, and whether the expect in fuse panicked.
recording_play(self, other) ==
    IF self.bridge # None /\ other.bridge # None
    THEN LET fused == bridge_fuse(self.bridge[1], other.bridge[1])
         IN  IF fused = Panic
             THEN [rec |-> self, ret |-> FALSE, panic |-> TRUE]
             ELSE IF fused # None
                  THEN [rec |-> [bridge |-> fused], ret |-> TRUE,
                        panic |-> FALSE]
                  ELSE [rec |-> self, ret |-> FALSE, panic |-> FALSE]
    ELSE [rec |-> [bridge |-> other.bridge], ret |-> TRUE,
          panic |-> FALSE]

\* ------------------------------------------------------------------- state

VARIABLES
    bridges,      \* BridgeTree.bridges
    saved,        \* BridgeTree.saved
    checkpoints,  \* BridgeTree.checkpoints
    max_checkpoints, \* BridgeTree.max_checkpoints
    panicked,     \* an operation ran into a Rust panic: the program is gone
    op,           \* the operation called last
    ret,          \* what it returned (TRUE for checkpoint, which returns ())
    leaves,       \* history: the leaves the tree holds, in order
    witnessed,    \* history, kept for the callers of SpecAW: the pairs
                  \* <<v, p>> such that witness was called while v was the
                  \* rightmost leaf, at position p
    mark,         \* history: Some(bridges as they were at the last checkpoint
                  \* call) while only append calls have followed it, else None
    rec,          \* the recording the caller holds: None before the first
                  \* recording() call, then Some(BridgeRecording)
    fresh,        \* history: TRUE while no operation on the tree has followed
                  \* the recording() call that made rec
    stage,        \* a second recording the caller holds: None before the
                  \* first clone of rec, then Some(BridgeRecording)
    front,        \* a Frontier the caller feeds the leaves it appends to
                  \* the tree
    front_ret,    \* the boolean returned by the last Frontier::append
    pos           \* a Position the caller holds and increments

vars == <<bridges, saved, checkpoints, max_checkpoints, panicked, op, ret, leaves, witnessed, mark, rec, fresh, stage, front, front_ret, pos>>

Tree ==
    [bridges |-> bridges, saved |-> saved, checkpoints |-> checkpoints,
     max_checkpoints |-> max_checkpoints]

Init ==
    /\ bridges = BridgeTree_new(MaxCheckpoints).bridges
    /\ saved = BridgeTree_new(MaxCheckpoints).saved
    /\ checkpoints = BridgeTree_new(MaxCheckpoints).checkpoints
    /\ max_checkpoints = BridgeTree_new(MaxCheckpoints).max_checkpoints
    /\ panicked = FALSE
    /\ op = "new"
    /\ ret = TRUE
    /\ leaves = <<>>
    /\ witnessed = {}
    /\ mark = None
    /\ rec = None
    /\ fresh = FALSE
    /\ stage = None
    /\ front = Frontier_empty
    /\ front_ret = TRUE
    /\ pos = 0

\* The call of a tree operation leaves result r behind; the recording the
\* caller holds is not touched by it.
ReturnsTree(name, r) ==
    /\ ~panicked
    /\ UNCHANGED <<rec, stage, pos>>
    /\ fresh' = FALSE
    /\ bridges' = r.tree.bridges
    /\ saved' = r.tree.saved
    /\ checkpoints' = r.tree.checkpoints
    /\ max_checkpoints' = r.tree.max_checkpoints
    /\ panicked' = r.panic
    /\ op' = name
    /\ ret' = r.ret

\* The call of a tree operation by a caller that leaves its Frontier alone.
Returns(name, r) ==
    /\ ReturnsTree(name, r)
    /\ UNCHANGED <<front, front_ret>>

\* The values a caller may append to a tree that holds the leaves ls.
Held(ls) == {ls[k] : k \in DOMAIN ls}

Inputs(ls) ==
    {<<Names[Min(Len(ls), Len(Names) - 1) + 1]>>}
        \cup (IF Len(ls) - Cardinality(Held(ls)) < MaxRepeats THEN Held(ls) ELSE {})

DoAppend ==
    \E v \in Inputs(leaves) :
        LET r == tree_append(Tree, v)
        IN  /\ Returns("append", r)
            /\ leaves' = IF r.ret THEN Append(leaves, v) ELSE leaves
            /\ UNCHANGED <<witnessed, mark>>

\* witness, called on a tree with leaves, marks the rightmost leaf.
Marked == IF Len(leaves) = 0 THEN {} ELSE {<<Last(leaves), Len(leaves) - 1>>}

DoWitness ==
    /\ Len(bridges) < MaxBridges
    /\ Returns("witness", tree_witness(Tree))
    /\ mark' = None
    /\ UNCHANGED <<leaves, witnessed>>

\* remove_witness is called with a witnessed value or with a value that is
\* not witnessed (empty_leaf is never appended, so it is never in saved).
DoRemoveWitness ==
    \E v \in DOMAIN saved \cup {empty_leaf} :
        /\ Returns("remove_witness", remove_witness(Tree, v))
        /\ mark' = None
        /\ UNCHANGED <<leaves, witnessed>>

DoCheckpoint ==
    /\ Returns("checkpoint", Result(checkpoint(Tree), TRUE))
    /\ mark' = Some(bridges)
    /\ UNCHANGED <<leaves, witnessed>>

\* The leaves under a digest (digests are terms, so they can be read back).
RECURSIVE flatten(_)
flatten(digest) ==
    IF Len(digest) = 1 THEN <<digest>>
    ELSE flatten(digest[2]) \o flatten(digest[3])

RECURSIVE flatten_ommers(_, _)
flatten_ommers(ommers, k) ==
    IF k = 0 THEN <<>> ELSE flatten(ommers[k]) \o flatten_ommers(ommers, k - 1)

\* The leaves a frontier stands for.
leaves_of(f) ==
    flatten_ommers(f.ommers, Len(f.ommers))
        \o (IF IsLeft(f.leaf) THEN <<f.leaf[2]>> ELSE <<f.leaf[2], f.leaf[3]>>)

\* A successful rewind brings the tree back to the leaves of the checkpoint.
DoRewind ==
    LET r == rewind(Tree)
    IN  /\ Returns("rewind", r)
        /\ mark' = None
        /\ leaves' = IF ~r.ret THEN leaves
                      ELSE IF Last(checkpoints) = Empty THEN <<>>
                      ELSE leaves_of(Last(checkpoints)[3].frontier)
        /\ UNCHANGED witnessed

Next ==
    \/ DoAppend
    \/ DoWitness
    \/ DoRemoveWitness
    \/ DoCheckpoint
    \/ DoRewind

Spec == Init /\ [][Next]_vars

\* Callers that only append and witness (witness at any position).
DoWitnessAnywhere ==
    /\ Returns("witness", tree_witness(Tree))
    /\ witnessed' = witnessed \cup Marked
    /\ mark' = None
    /\ UNCHANGED leaves

NextAW ==
    \/ DoAppend
    \/ DoWitnessAnywhere

SpecAW == Init /\ [][NextAW]_vars

\* Callers that also stage appends in a recording and play it back, at any
\* later time.
DoRecording ==
    /\ ~panicked
    /\ rec' = Some(recording(Tree))
    /\ fresh' = TRUE
    /\ op' = "recording"
    /\ ret' = TRUE
    /\ UNCHANGED <<bridges, saved, checkpoints, max_checkpoints, panicked,
                   leaves, witnessed, mark, stage,
                   front, front_ret, pos>>

\* The leaves the recording r stands for.
recorded(r) == IF r.bridge = None THEN <<>> ELSE leaves_of(r.bridge[1].frontier)

DoRecordingAppend ==
    /\ ~panicked
    /\ rec # None
    /\ \E v \in Inputs(recorded(rec[1])) :
           LET r == recording_append(rec[1], v)
           IN  /\ rec' = Some(r.rec)
               /\ ret' = r.ret
    /\ op' = "recording_append"
    /\ UNCHANGED <<bridges, saved, checkpoints, max_checkpoints, panicked,
                   leaves, witnessed, mark, fresh, stage,
                   front, front_ret, pos>>

DoPlay ==
    /\ rec # None
    /\ LET r == play(Tree, rec[1])
       IN  /\ Returns("play", r)
           /\ leaves' = IF r.ret THEN recorded(rec[1]) ELSE leaves
    /\ mark' = None
    /\ UNCHANGED witnessed

\* append, while the tree holds fewer than MaxRecorded leaves.
DoAppendFew ==
    /\ Len(leaves) < MaxRecorded
    /\ DoAppend

\* Recording::append, while the recording holds fewer than MaxRecorded leaves.
DoRecordingAppendFew ==
    /\ rec # None
    /\ Len(recorded(rec[1])) < MaxRecorded
    /\ DoRecordingAppend

\* rewind, while the tree holds at most MaxBridges bridges (a rewind can push
\* a bridge).
DoRewindFew ==
    /\ Len(bridges) <= MaxBridges
    /\ DoRewind

NextRec ==
    \/ DoAppendFew
    \/ DoWitness
    \/ DoRemoveWitness
    \/ DoCheckpoint
    \/ DoRewindFew
    \/ DoRecording
    \/ DoRecordingAppendFew
    \/ DoPlay

SpecRec == Init /\ [][NextRec]_vars

\* Callers that stage appends in a recording taken from the tree and play it
\* back before any other operation on the tree.
DoRecordingAppendFresh ==
    /\ fresh
    /\ rec # None
    /\ Len(recorded(rec[1])) - Len(leaves) < MaxStaged
    /\ DoRecordingAppend

DoPlayFresh ==
    /\ fresh
    /\ DoPlay

NextStage ==
    \/ DoAppend
    \/ DoWitness
    \/ DoRecording
    \/ DoRecordingAppendFresh
    \/ DoPlayFresh

SpecStage == Init /\ [][NextStage]_vars

\* Trees made with any max_checkpoints up to MaxCheckpoints + 1, and callers
\* that append few leaves.
InitCk ==
    /\ \E m \in 0..(MaxCheckpoints + 1) :
           /\ bridges = BridgeTree_new(m).bridges
           /\ saved = BridgeTree_new(m).saved
           /\ checkpoints = BridgeTree_new(m).checkpoints
           /\ max_checkpoints = BridgeTree_new(m).max_checkpoints
    /\ panicked = FALSE
    /\ op = "new"
    /\ ret = TRUE
    /\ leaves = <<>>
    /\ witnessed = {}
    /\ mark = None
    /\ rec = None
    /\ fresh = FALSE
    /\ stage = None
    /\ front = Frontier_empty
    /\ front_ret = TRUE
    /\ pos = 0

NextCk ==
    \/ DoAppendFew
    \/ DoWitness
    \/ DoRemoveWitness
    \/ DoCheckpoint
    \/ DoRewindFew

SpecCk == InitCk /\ [][NextCk]_vars

\* The caller clones the recording it holds.
DoClone ==
    /\ ~panicked
    /\ rec # None
    /\ stage' = rec
    /\ op' = "clone"
    /\ ret' = TRUE
    /\ UNCHANGED <<bridges, saved, checkpoints, max_checkpoints, panicked,
                   leaves, witnessed, mark, rec, fresh, front,
                   front_ret, pos>>

\* Recording::append on the clone, while it holds fewer than MaxRecorded
\* leaves.
DoStageAppendFew ==
    /\ ~panicked
    /\ stage # None
    /\ Len(recorded(stage[1])) < MaxRecorded
    /\ \E v \in Inputs(recorded(stage[1])) :
           LET r == recording_append(stage[1], v)
           IN  /\ stage' = Some(r.rec)
               /\ ret' = r.ret
    /\ op' = "stage_append"
    /\ UNCHANGED <<bridges, saved, checkpoints, max_checkpoints, panicked,
                   leaves, witnessed, mark, rec, fresh, front,
                   front_ret, pos>>

\* Recording::play: the clone plays the recording rec.
DoRecordingPlay ==
    /\ ~panicked
    /\ stage # None
    /\ rec # None
    /\ LET r == recording_play(stage[1], rec[1])
       IN  /\ stage' = Some(r.rec)
           /\ ret' = r.ret
           /\ panicked' = r.panic
    /\ op' = "recording_play"
    /\ UNCHANGED <<bridges, saved, checkpoints, max_checkpoints,
                   leaves, witnessed, mark, rec, fresh, front,
                   front_ret, pos>>

\* Callers that hold two recordings of a tree and play one into the other.
NextPlay ==
    \/ DoAppendFew
    \/ DoWitness
    \/ DoRemoveWitness
    \/ DoCheckpoint
    \/ DoRewindFew
    \/ DoRecording
    \/ DoRecordingAppendFew
    \/ DoClone
    \/ DoStageAppendFew
    \/ DoRecordingPlay

SpecPlay == Init /\ [][NextPlay]_vars

\* append on the tree and on the Frontier, with the same value.
DoAppendBoth ==
    \E v \in Inputs(leaves) :
        LET r == tree_append(Tree, v)
            f == Frontier_append(front, v)
        IN  /\ ReturnsTree("append", r)
            /\ front' = f.front
            /\ front_ret' = f.ret
            /\ leaves' = IF r.ret THEN Append(leaves, v) ELSE leaves
            /\ UNCHANGED <<witnessed, mark>>

\* Callers that feed a tree and a Frontier the same leaves, and witness,
\* remove_witness and checkpoint on the tree in between.
NextFront ==
    \/ DoAppendBoth
    \/ DoWitness
    \/ DoRemoveWitness
    \/ DoCheckpoint

SpecFront == Init /\ [][NextFront]_vars

\* The positions the caller starts from: the first ones, and the ones just
\* below each power of two up to 2^MaxBits.
StartPositions ==
    (0..MaxSmall) \cup {Pow2(k) - MaxSteps + 2 : k \in 3..MaxBits}

InitPos ==
    /\ bridges = BridgeTree_new(MaxCheckpoints).bridges
    /\ saved = BridgeTree_new(MaxCheckpoints).saved
    /\ checkpoints = BridgeTree_new(MaxCheckpoints).checkpoints
    /\ max_checkpoints = BridgeTree_new(MaxCheckpoints).max_checkpoints
    /\ panicked = FALSE
    /\ op = "new"
    /\ ret = TRUE
    /\ leaves = <<>>
    /\ witnessed = {}
    /\ mark = None
    /\ rec = None
    /\ fresh = FALSE
    /\ stage = None
    /\ front = Frontier_empty
    /\ front_ret = TRUE
    /\ pos \in StartPositions

\* Position::increment, at most MaxSteps times from a start position.
DoIncrement ==
    /\ \E s \in StartPositions : s <= pos /\ pos < s + MaxSteps
    /\ pos' = pos + 1
    /\ op' = "increment"
    /\ UNCHANGED <<bridges, saved, checkpoints, max_checkpoints, panicked, ret,
                   leaves, witnessed, mark, rec, fresh, stage, front,
                   front_ret>>

NextPos == DoIncrement

SpecPos == InitPos /\ [][NextPos]_vars

\* ------------------------------------------------- the reference Merkle tree
\* The perfect tree of depth DEPTH over the leaves ls, every missing leaf
\* taken as empty_leaf: node idx of altitude alt covers the leaves
\* idx * 2^alt .. (idx + 1) * 2^alt - 1.

RECURSIVE subtree_root(_, _, _)
subtree_root(ls, alt, idx) ==
    IF alt = 0
    THEN (IF idx < Len(ls) THEN ls[idx + 1] ELSE empty_leaf)
    ELSE combine(alt - 1, subtree_root(ls, alt - 1, 2 * idx),
                          subtree_root(ls, alt - 1, 2 * idx + 1))

\* The sibling of the node of altitude alt above leaf p.
sibling_root(ls, alt, p) ==
    LET idx == p \div Pow2(alt)
    IN  subtree_root(ls, alt, IF idx % 2 = 0 THEN idx + 1 ELSE idx - 1)

\* Folding a digest of altitude k above leaf p up the path.
RECURSIVE fold_path(_, _, _, _)
fold_path(digest, p, path, k) ==
    IF k >= Len(path) THEN digest
    ELSE fold_path(IF BitSet(p, k) THEN combine(k, path[k + 1], digest)
                                   ELSE combine(k, digest, path[k + 1]),
                   p, path, k + 1)

IsSome(x) == Len(x) = 1

\* ------------------------------------------------------------------ claims

\* C2: after new and k appends, root() is the root of the perfect tree of
\* depth DEPTH whose first k leaves are the appended ones and whose other
\* leaves are empty_leaf; on the empty tree it is empty_root(DEPTH).
C2_RootIsMerkleRoot ==
    /\ tree_root(Tree) = subtree_root(leaves, DEPTH, 0)
    /\ (leaves = <<>> => tree_root(Tree) = empty_root(DEPTH))

C2_Witness ==
    /\ op = "append" /\ ret
    /\ Len(leaves) = Pow2(DEPTH) - 1
    /\ tree_root(Tree) = subtree_root(leaves, DEPTH, 0)

\* The sibling roots above leaf p, altitudes 0..DEPTH-1.
siblings(ls, p) == [k \in 1..DEPTH |-> sibling_root(ls, k - 1, p)]

\* The first position at which the value v was witnessed.
first_witnessed(v) ==
    CHOOSE p \in {w[2] : w \in {x \in witnessed : x[1] = v}} :
        \A w \in witnessed : w[1] = v => p <= w[2]

\* C3 as stated: after appends and witnesses, for any leaf v witnessed at
\* position p, authentication_path(v) is Some((p, path)) with path of DEPTH
\* entries, entry k the root of the sibling subtree of altitude k above p.
C3_Original ==
    \A w \in witnessed :
        authentication_path(Tree, w[1]) = Some(<<w[2], siblings(leaves, w[2])>>)

\* C3 amended: after appends and witnesses, every witnessed value v is in
\* saved and authentication_path(v) is Some((p, path)) for the first
\* position p at which the value v was witnessed, path having DEPTH entries,
\* entry k the root of the sibling subtree of altitude k above p.
C3_PathIsSiblings ==
    /\ DOMAIN saved = {w[1] : w \in witnessed}
    /\ \A v \in DOMAIN saved :
           LET p == first_witnessed(v)
           IN  /\ leaves[p + 1] = v
               /\ authentication_path(Tree, v) = Some(<<p, siblings(leaves, p)>>)
               /\ Len(siblings(leaves, p)) = DEPTH

C3_Witness ==
    \E v \in DOMAIN saved :
        /\ first_witnessed(v) = 2
        /\ Len(leaves) = 6
        /\ Len(bridges) >= 3
        /\ authentication_path(Tree, v) = Some(<<2, siblings(leaves, 2)>>)

\* C1: in every state reached by append, witness, remove_witness,
\* checkpoint and rewind, every saved leaf has an authentication path, and
\* folding the leaf up that path gives root().
C1_PathFoldsToRoot ==
    \A v \in DOMAIN saved :
        LET ap == authentication_path(Tree, v)
        IN  /\ IsSome(ap)
            /\ fold_path(v, ap[1][1], ap[1][2], 0) = tree_root(Tree)

C1_Witness ==
    /\ op = "rewind" /\ ret
    /\ Cardinality(DOMAIN saved) = 2
    /\ \A v \in DOMAIN saved :
           LET ap == authentication_path(Tree, v)
           IN  IsSome(ap) /\ fold_path(v, ap[1][1], ap[1][2], 0) = tree_root(Tree)

\* C4: append returns true while the tree holds fewer than 2^DEPTH leaves;
\* called on a tree of 2^DEPTH leaves it returns false and leaves bridges,
\* saved and checkpoints unchanged.
C4_AppendSaturation ==
    [][op' = "append" =>
          /\ ret' = (Len(leaves) < Pow2(DEPTH))
          /\ (Len(leaves) = Pow2(DEPTH) =>
                  UNCHANGED <<bridges, saved, checkpoints>>)]_vars

C4_Witness ==
    /\ op = "append" /\ ~ret
    /\ Len(leaves) = Pow2(DEPTH)
    /\ DOMAIN saved # {}

\* The conditions under which C5 says rewind returns false.
C5_Refused ==
    \/ Len(checkpoints) = 0
    \/ /\ Len(checkpoints) > 0
       /\ Last(checkpoints) = Empty
       /\ DOMAIN saved # {}
    \/ /\ Len(checkpoints) > 0
       /\ Last(checkpoints) # Empty
       /\ \E v \in DOMAIN saved : saved[v] > Last(checkpoints)[2]
    \/ /\ Len(checkpoints) > 0
       /\ Last(checkpoints) # Empty
       /\ \E v \in DOMAIN saved : saved[v] = Last(checkpoints)[2]
       /\ Last(checkpoints)[3].frontier
              # At(bridges, Last(checkpoints)[2]).frontier

\* C5: rewind returns false exactly when the checkpoint stack is empty, or
\* the newest checkpoint is Empty and saved is not empty, or it is
\* AtIndex(i, s) and some saved index exceeds i, or it is AtIndex(i, s), some
\* saved index equals i and s.frontier differs from bridges[i].frontier.
C5_RewindRefusal ==
    [][op' = "rewind" => (~panicked' /\ (ret' = ~C5_Refused))]_vars

C5_Witness ==
    /\ op = "rewind" /\ ~ret
    /\ Len(checkpoints) > 0
    /\ Last(checkpoints) # Empty
    /\ \A v \in DOMAIN saved : saved[v] <= Last(checkpoints)[2]
    /\ \E v \in DOMAIN saved : saved[v] = Last(checkpoints)[2]

\* C6: a rewind that returns false leaves bridges, saved and the checkpoint
\* stack as they were.
C6_FailedRewindChangesNothing ==
    [][(op' = "rewind" /\ ~ret') =>
          UNCHANGED <<bridges, saved, checkpoints>>]_vars

C6_Witness ==
    /\ op = "rewind" /\ ~ret
    /\ Len(checkpoints) > 0
    /\ DOMAIN saved # {}

\* C7: checkpoint called in state S, then only appends, then rewind: rewind
\* returns true, bridges is S.bridges again and root() is S.root().
C7_RewindRestores ==
    [][(mark # None /\ op' = "rewind") =>
          /\ ret'
          /\ bridges' = mark[1]
          /\ tree_root(Tree)' = tree_root([Tree EXCEPT !.bridges = mark[1]])]_vars

\* C8: rewind leaves the saved map as it was, whatever it returns.
C8_RewindKeepsSaved ==
    [][op' = "rewind" => saved' = saved]_vars

C8_Witness ==
    /\ op = "rewind" /\ ret
    /\ Len(leaves) >= 2
    /\ Cardinality(DOMAIN saved) = 2

\* C9: on a tree that is not empty, two witness calls in a row both return
\* true, and the second leaves saved and bridges as the first left them.
C9_WitnessIdempotent ==
    Len(bridges) > 0 =>
        LET first  == tree_witness(Tree)
            second == tree_witness(first.tree)
        IN  /\ first.ret
            /\ second.ret
            /\ second.tree.saved = first.tree.saved
            /\ second.tree.bridges = first.tree.bridges

C9_Witness ==
    /\ op = "witness" /\ ret
    /\ Len(bridges) = 3
    /\ Cardinality(DOMAIN saved) = 2
    /\ tree_witness(Tree).tree = Tree

\* The values authentication_path is asked about: those the tree holds, the
\* witnessed ones, and one that was never appended.
Asked == Held(leaves) \cup DOMAIN saved \cup {empty_leaf}

\* Every saved entry has a following bridge, and authentication_path is Some
\* for the saved values and None for the others.
C10_SavedHaveSuccessor ==
    /\ \A v \in DOMAIN saved :
           /\ saved[v] + 1 < Len(bridges)
           /\ IsSome(authentication_path(Tree, v))
    /\ \A v \in Asked \ DOMAIN saved : authentication_path(Tree, v) = None

\* An altitude above leaf p whose sibling subtree holds none of the leaves ls.
Unpopulated(ls, k, p) ==
    LET idx == p \div Pow2(k)
    IN  idx % 2 = 0 /\ (idx + 1) * Pow2(k) >= Len(ls)

\* The path of the rightmost leaf of ls, returned for position p.
RightmostPath(ap, ls) ==
    LET p == Len(ls) - 1
    IN  /\ ap = Some(<<p, siblings(ls, p)>>)
        /\ \A k \in 0..(DEPTH - 1) :
               Unpopulated(ls, k, p) => ap[1][2][k + 1] = empty_root(k)

ChainFuses(i) ==
    /\ i < Len(bridges)
    /\ IsSome(fuse_all(SubSeq(bridges, i + 2, Len(bridges))))

\* C11: in every state reached by the public operations, play of earlier
\* recordings included, for every saved index i the chain bridges[i+1..]
\* fuses, so authentication_path never panics.
C11_ChainFuses ==
    \A v \in DOMAIN saved :
        /\ ChainFuses(saved[v])
        /\ authentication_path(Tree, v) # Panic

\* C12: in every state reached by the public operations (recording and play
\* included), each bridge but the first has for prior_position the frontier
\* position of the bridge before it.
C12_BridgeChain ==
    \A i \in 1..(Len(bridges) - 1) :
        bridges[i + 1].prior_position = Some(bridges[i].frontier.position)

\* BridgeTree::append called with the values vs, from the k-th on.
RECURSIVE appends(_, _, _)
appends(t, vs, k) ==
    IF k > Len(vs) THEN t ELSE appends(tree_append(t, vs[k]).tree, vs, k + 1)

\* The tree after the appends staged in the recording are made on it directly.
Direct == appends(Tree, recorded(rec[1]), Len(leaves) + 1)

\* C13: with rec taken from the tree by recording() and extended by k >= 0
\* Recording::append calls, no tree operation in between, play(rec) returns
\* true and gives the tree that the same k appends give when made on the tree;
\* each Recording::append returns what the BridgeTree::append returns.
C13_StageThenCommit ==
    fresh =>
        /\ play(Tree, rec[1]) = Result(Direct, TRUE)
        /\ \A v \in Inputs(recorded(rec[1])) :
               recording_append(rec[1], v).ret = tree_append(Direct, v).ret

C13_Witness ==
    /\ fresh
    /\ op = "recording_append" /\ ~ret
    /\ Len(bridges) = 3
    /\ Len(leaves) = Pow2(DEPTH) - 1
    /\ Len(recorded(rec[1])) = Pow2(DEPTH)
    /\ play(Tree, rec[1]) = Result(Direct, TRUE)

\* The conditions under which C14 lets play return false.
C14_Refusable ==
    \/ Len(bridges) >= 1 /\ rec[1].bridge = None
    \/ /\ Len(bridges) > 1
       /\ rec[1].bridge # None
       /\ ~can_follow(rec[1].bridge[1], At(bridges, Len(bridges) - 2))

\* C14: play returns false only when the tree has a bridge and the recording
\* has none, or the tree has n > 1 bridges and the recorded bridge cannot
\* follow bridges[n-2]; a play that returns false leaves bridges, saved and
\* checkpoints as they were.
C14_PlayRefusal ==
    [][(op' = "play" /\ ~ret') =>
          /\ C14_Refusable
          /\ UNCHANGED <<bridges, saved, checkpoints>>]_vars

C14_Witness ==
    /\ op = "play" /\ ~ret
    /\ Len(bridges) = 3
    /\ DOMAIN saved # {}
    /\ rec[1].bridge # None
    /\ ~can_follow(rec[1].bridge[1], At(bridges, Len(bridges) - 2))

\* C15: after a play that returns true, recordings of this tree taken at
\* any earlier time included, every saved leaf still has an authentication
\* path, and folding the leaf up that path gives root().
C15_PlayKeepsPaths ==
    (op = "play" /\ ret) =>
        \A v \in DOMAIN saved :
            LET ap == authentication_path(Tree, v)
            IN  /\ IsSome(ap)
                /\ fold_path(v, ap[1][1], ap[1][2], 0) = tree_root(Tree)

\* The checkpoint that stands for the current state.
Current ==
    IF Len(bridges) = 0 THEN Empty
    ELSE AtIndex(Len(bridges) - 1, Last(bridges))

C17_SavedPointsAtLeaf ==
    \A h \in DOMAIN saved :
        /\ saved[h] < Len(bridges)
        /\ leaf_value(At(bridges, saved[h]).frontier) = h

C17_Witness ==
    /\ op = "play" /\ ret
    /\ Cardinality(DOMAIN saved) = 2
    /\ Len(bridges) = 3
    /\ \A h \in DOMAIN saved : leaf_value(At(bridges, saved[h]).frontier) = h


\* C18: in every reachable state with a bridge, bridges.len() is at least the
\* number of saved leaves plus one.
C18_BridgePerSaved ==
    Len(bridges) > 0 => Len(bridges) >= Cardinality(DOMAIN saved) + 1

C18_Witness ==
    /\ op = "rewind" /\ ret
    /\ Len(bridges) = 3
    /\ Cardinality(DOMAIN saved) = 2


\* C19: witness() returns false exactly when bridges is empty, and then
\* leaves bridges, saved and checkpoints as they were; on a tree with a
\* bridge it returns true.
C19_WitnessRefusal ==
    [][op' = "witness" =>
          /\ ret' = (Len(bridges) > 0)
          /\ (Len(bridges) = 0 => UNCHANGED <<bridges, saved, checkpoints>>)]_vars

C19_Witness ==
    /\ op = "witness" /\ ~ret
    /\ Len(bridges) = 0
    /\ Len(checkpoints) > 0


\* C20 as stated: after a successful append(v) followed at once by witness(),
\* for any leaf values, authentication_path(v) is Some((p, path)) with p the
\* position of the leaf just appended.
C20_Original ==
    (op = "append" /\ ret) =>
        LET v  == Last(leaves)
            ap == authentication_path(tree_witness(Tree).tree, v)
        IN  /\ IsSome(ap)
            /\ ap[1][1] = Len(leaves) - 1

\* C20 amended: after a successful append(v) followed at once by witness(),
\* authentication_path(v) is Some((p, path)); p is the position of the leaf
\* just appended when v was not in saved before the witness call, and the
\* position of the leaf that saved already holds for v, an earlier one, when
\* it was.
C20_PositionAfterWitness ==
    (op = "append" /\ ret) =>
        LET v  == Last(leaves)
            ap == authentication_path(tree_witness(Tree).tree, v)
        IN  /\ IsSome(ap)
            /\ ap[1][1] = IF v \in DOMAIN saved
                          THEN At(bridges, saved[v]).frontier.position
                          ELSE Len(leaves) - 1
            /\ (v \in DOMAIN saved =>
                    At(bridges, saved[v]).frontier.position < Len(leaves) - 1)

C20_Witness ==
    /\ op = "append" /\ ret
    /\ Len(leaves) = 4
    /\ Last(leaves) \in Held(SubSeq(leaves, 1, 3))
    /\ Last(leaves) \notin DOMAIN saved
    /\ DOMAIN saved # {}
    /\ authentication_path(tree_witness(Tree).tree, Last(leaves))[1][1] = 3

\* C21: remove_witness(v) returns true iff v was in saved; it removes the
\* entry of v from saved and nothing else, leaves bridges (auth fragments
\* included) and checkpoints as they were, and afterwards
\* authentication_path(v) is None, as it is for every value not in saved.
C21_RemoveWitnessFrame ==
    /\ \A v \in Asked :
           LET r == remove_witness(Tree, v)
           IN  /\ ~r.panic
               /\ r.ret = (v \in DOMAIN saved)
               /\ r.tree.bridges = bridges
               /\ r.tree.checkpoints = checkpoints
               /\ DOMAIN r.tree.saved = DOMAIN saved \ {v}
               /\ \A w \in DOMAIN saved \ {v} : r.tree.saved[w] = saved[w]
               /\ authentication_path(r.tree, v) = None
    /\ \A v \in Asked \ DOMAIN saved : authentication_path(Tree, v) = None

C21_Witness ==
    /\ op = "remove_witness" /\ ret
    /\ Len(bridges) = 3
    /\ Cardinality(DOMAIN saved) = 1
    /\ \E v \in Held(leaves) \ DOMAIN saved :
           /\ leaf_value(At(bridges, 0).frontier) = v
           /\ authentication_path(Tree, v) = None

\* The last two bridges have equal frontiers.
DuplicateFrontier(bs) ==
    Len(bs) > 1 /\ At(bs, Len(bs) - 1).frontier = At(bs, Len(bs) - 2).frontier

\* witness() on a duplicate frontier pushes no bridge and maps a leaf that is
\* not in saved to index bridges.len()-2.
C22_NoSecondBridge ==
    DuplicateFrontier(bridges) =>
        LET r    == tree_witness(Tree)
            leaf == leaf_value(Last(bridges).frontier)
        IN  /\ r.ret
            /\ r.tree.bridges = bridges
            /\ leaf \notin DOMAIN saved =>
                   /\ DOMAIN r.tree.saved = DOMAIN saved \cup {leaf}
                   /\ r.tree.saved[leaf] = Len(bridges) - 2
                   /\ \A w \in DOMAIN saved : r.tree.saved[w] = saved[w]

\* C22 as stated: witness() on a duplicate frontier pushes no bridge and maps
\* an unsaved leaf to bridges.len()-2; hence witness(); remove_witness(v);
\* witness(), v the rightmost leaf, gives the bridges and the saved of the
\* first witness() alone, and the same authentication_path(v).
C22_Original ==
    /\ C22_NoSecondBridge
    /\ Len(bridges) > 0 =>
           LET v      == leaf_value(Last(bridges).frontier)
               first  == tree_witness(Tree).tree
               second == tree_witness(remove_witness(first, v).tree).tree
           IN  /\ second.bridges = first.bridges
               /\ second.saved = first.saved
               /\ authentication_path(second, v) = authentication_path(first, v)

\* C22 amended: witness() on a duplicate frontier pushes no bridge and maps an
\* unsaved leaf to bridges.len()-2; hence witness(); remove_witness(v);
\* witness() gives the bridges of the first witness() alone, and the same
\* saved and the same authentication_path(v) when the first witness() left v
\* saved at bridges.len()-2; when v was saved at an earlier index (an equal
\* leaf value witnessed before), the second witness() moves v to
\* bridges.len()-2 and keeps every other entry.
C22_Rewitness ==
    /\ C22_NoSecondBridge
    /\ Len(bridges) > 0 =>
           LET v      == leaf_value(Last(bridges).frontier)
               first  == tree_witness(Tree).tree
               second == tree_witness(remove_witness(first, v).tree).tree
           IN  /\ second.bridges = first.bridges
               /\ second.saved = [first.saved EXCEPT ![v] = Len(first.bridges) - 2]
               /\ first.saved[v] = Len(first.bridges) - 2 =>
                      /\ second.saved = first.saved
                      /\ authentication_path(second, v)
                             = authentication_path(first, v)

C22_Witness ==
    /\ op = "remove_witness" /\ ret
    /\ Len(bridges) = 3
    /\ DuplicateFrontier(bridges)
    /\ leaf_value(Last(bridges).frontier) \notin DOMAIN saved
    /\ DOMAIN saved # {}
    /\ tree_witness(Tree).tree.saved[leaf_value(Last(bridges).frontier)] = 1
    /\ IsSome(authentication_path(tree_witness(Tree).tree,
                                  leaf_value(Last(bridges).frontier)))

\* The digests captured for the leaf of bridge idx: the values of its
\* fragments in the bridges idx+1 .. k, in order.
RECURSIVE Captured(_, _)
Captured(idx, k) ==
    IF k <= idx THEN <<>>
    ELSE Captured(idx, k - 1)
             \o (IF idx \in DOMAIN At(bridges, k).auth_fragments
                 THEN At(bridges, k).auth_fragments[idx].values
                 ELSE <<>>)

\* p | (2^(h+1) - 1): the last leaf under the sibling of altitude h above p.
RightEdge(p, h) == (p \div Pow2(h + 1)) * Pow2(h + 1) + Pow2(h + 1) - 1

\* C23: with only appends and witnesses, the digests captured for a leaf
\* witnessed at position p are, in order, the roots of the sibling subtrees at
\* altitudes all_altitudes_required(p)[0], [1], ...; the digest of required
\* altitude h is there exactly from the append that makes p | (2^(h+1) - 1)
\* the rightmost leaf.
C23_CapturedDigests ==
    \A idx \in 0..(Len(bridges) - 2) :
        LET p        == At(bridges, idx).frontier.position
            captured == Captured(idx, Len(bridges) - 1)
            alts     == all_altitudes_required(p)
        IN  /\ Len(captured) =
                   Cardinality({j \in 1..Len(alts) :
                                   /\ alts[j] < DEPTH
                                   /\ RightEdge(p, alts[j]) <= Len(leaves) - 1})
            /\ \A j \in 1..Len(captured) :
                   captured[j] = sibling_root(leaves, alts[j], p)

C23_Witness ==
    /\ op = "append" /\ ret
    /\ Len(leaves) = Pow2(DEPTH)
    /\ Len(bridges) >= 3
    /\ \E idx \in 0..(Len(bridges) - 2) :
           /\ At(bridges, idx).frontier.position = 2
           /\ Len(At(bridges, idx + 1).auth_fragments[idx].values) = 1
           /\ Captured(idx, Len(bridges) - 1)
                  = <<sibling_root(leaves, 0, 2), sibling_root(leaves, 2, 2)>>

\* The bridges a state holds: those of the tree and those of its checkpoints.
HeldBridges ==
    {bridges[k] : k \in DOMAIN bridges}
        \cup {checkpoints[k][3] : k \in {j \in DOMAIN checkpoints :
                                            checkpoints[j] # Empty}}

\* C24: MerkleBridge::append makes every fragment of the bridge capture at
\* most one digest (altitudes_observed and values.len() grow by the same 0 or
\* 1); so altitudes_observed >= values.len() for every fragment in every
\* reachable state; a fragment carried over by successor() starts with empty
\* values and the altitudes_observed of its predecessor.
C24_OneDigestPerAppend ==
    /\ \A b \in HeldBridges : \A k \in DOMAIN b.auth_fragments :
           b.auth_fragments[k].altitudes_observed
               >= Len(b.auth_fragments[k].values)
    /\ Len(bridges) > 0 /\ ~is_complete(Last(bridges).frontier.position, DEPTH) =>
           \A v \in Inputs(leaves) :
               LET b     == Last(bridges)
                   after == bridge_append(b, v)
               IN  /\ DOMAIN after.auth_fragments = DOMAIN b.auth_fragments
                   /\ \A k \in DOMAIN b.auth_fragments :
                          LET old == b.auth_fragments[k]
                              new == after.auth_fragments[k]
                          IN  /\ new.position = old.position
                              /\ new.altitudes_observed - old.altitudes_observed
                                     \in {0, 1}
                              /\ Len(new.values) - Len(old.values)
                                     = new.altitudes_observed
                                           - old.altitudes_observed
                              /\ SubSeq(new.values, 1, Len(old.values)) = old.values
    /\ Len(bridges) > 0 =>
           LET b    == Last(bridges)
               succ == successor(b, Len(bridges) - 1)
           IN  \A k \in DOMAIN b.auth_fragments \ {Len(bridges) - 1} :
                   /\ succ.auth_fragments[k].values = <<>>
                   /\ succ.auth_fragments[k].altitudes_observed
                          = b.auth_fragments[k].altitudes_observed
                   /\ succ.auth_fragments[k].position
                          = b.auth_fragments[k].position

C24_Witness ==
    /\ op = "append" /\ ret
    /\ Len(bridges) = 3
    /\ DOMAIN Last(bridges).auth_fragments = {0, 1}
    /\ Last(bridges).auth_fragments[0].altitudes_observed = 2
    /\ Len(Last(bridges).auth_fragments[0].values) = 1
    /\ Last(bridges).auth_fragments[1].altitudes_observed = 1

\* C25: every frontier made by new and appends, so every bridge frontier of
\* a tree, has a Left leaf iff its position is even and a Right leaf iff it is
\* odd, and as many ommers as ommer_altitudes(position) has altitudes: the
\* number of set bits of position at bit indices >= 1.
C25_FrontierShape ==
    \A b \in HeldBridges :
        LET f == b.frontier
        IN  /\ f.leaf[1] \in {"Left", "Right"}
            /\ (f.leaf[1] = "Left") = (f.position % 2 = 0)
            /\ (f.leaf[1] = "Right") = (f.position % 2 = 1)
            /\ Len(f.ommers) = Len(ommer_altitudes(f.position))
            /\ Len(f.ommers)
                   = Cardinality({i \in 1..(AltitudeLimit - 1) : BitSet(f.position, i)})

C25_Witness ==
    /\ op = "append" /\ ret
    /\ Last(bridges).frontier.position = 6
    /\ IsLeft(Last(bridges).frontier.leaf)
    /\ Len(Last(bridges).frontier.ommers) = 2
    /\ \E b \in HeldBridges :
           b.frontier.position = 3 /\ Len(b.frontier.ommers) = 1

\* The bridges a caller can hand to fuse: those of the tree, of its
\* checkpoints and of the recording.
Pool ==
    HeldBridges
        \cup (IF rec # None /\ rec[1].bridge # None THEN {rec[1].bridge[1]} ELSE {})

\* The chains over Pool in which every bridge can follow the one before it,
\* and the slices of the tree's own bridges.
Follows(c) == \A k \in 1..(Len(c) - 1) : can_follow(c[k + 1], c[k])

Chains ==
    {c \in {<<a>> : a \in Pool}
             \cup {<<a, b>> : a \in Pool, b \in Pool}
             \cup {<<a, b, d>> : a \in Pool, b \in Pool, d \in Pool}
             \cup {SubSeq(bridges, i, j) : i \in 1..Len(bridges), j \in 1..Len(bridges)} :
        Len(c) > 0 /\ Follows(c)}

\* fuse applied to two outcomes of fuse.
fuse_opt(x, y) ==
    IF x = None \/ x = Panic THEN x
    ELSE IF y = None \/ y = Panic THEN y
    ELSE bridge_fuse(x[1], y[1])

\* What C26 says of the chain c.
FusesWell(c) ==
    /\ LET r == fuse_all(c)
       IN  /\ IsSome(r)
           /\ r[1].frontier = c[Len(c)].frontier
           /\ r[1].prior_position = c[1].prior_position
    /\ Len(c) = 3 =>
           LET left  == fuse_opt(fuse_opt(Some(c[1]), Some(c[2])), Some(c[3]))
               right == fuse_opt(Some(c[1]), fuse_opt(Some(c[2]), Some(c[3])))
           IN  IsSome(left) /\ left = right

LeftFirst(c) == fuse_opt(fuse_opt(Some(c[1]), Some(c[2])), Some(c[3]))

RightFirst(c) == fuse_opt(Some(c[1]), fuse_opt(Some(c[2]), Some(c[3])))

\* The slices bridges[i..j] of the tree's bridges.
Slices ==
    {SubSeq(bridges, i, j) : i \in 1..Len(bridges), j \in 1..Len(bridges)} \ {<<>>}

PlayPanics == op = "recording_play" /\ panicked

\* C27: Recording::play(other): when self holds no bridge, self becomes a copy
\* of other's bridge and true is returned; when both hold a bridge and the
\* bridge of other can_follow the bridge of self, the bridge of self becomes
\* their fusion (frontier of other, prior_position and fragment keys of self)
\* and true is returned; when both hold a bridge and can_follow fails, false
\* is returned and self is unchanged.
C27_PlayCases ==
    [][op' = "recording_play" =>
          LET self == stage[1]
              other == rec[1]
              after == stage'[1]
          IN  /\ self.bridge = None =>
                     ~panicked' /\ ret' /\ after.bridge = other.bridge
              /\ ( /\ self.bridge # None
                   /\ other.bridge # None
                   /\ can_follow(other.bridge[1], self.bridge[1]) ) =>
                     /\ ~panicked'
                     /\ ret'
                     /\ after.bridge # None
                     /\ after.bridge[1].frontier = other.bridge[1].frontier
                     /\ after.bridge[1].prior_position =
                            self.bridge[1].prior_position
                     /\ DOMAIN after.bridge[1].auth_fragments =
                            DOMAIN self.bridge[1].auth_fragments
              /\ ( /\ self.bridge # None
                   /\ other.bridge # None
                   /\ ~can_follow(other.bridge[1], self.bridge[1]) ) =>
                     ~panicked' /\ ~ret' /\ after = self]_vars

\* C28: Recording::play never discards staged leaves: if self holds a bridge
\* before play(other) and the call returns true, self still holds a bridge
\* afterwards whose frontier contains at least as many leaves as before, and
\* playing a recording that holds no bridge leaves self unchanged.
C28_PlayKeepsStaged ==
    [][(op' = "recording_play" /\ stage[1].bridge # None /\ ret') =>
          /\ stage'[1].bridge # None
          /\ stage'[1].bridge[1].frontier.position >=
                 stage[1].bridge[1].frontier.position
          /\ rec[1].bridge = None => stage' = stage]_vars

\* C29: in every reachable state every checkpoint AtIndex(i, _) on the stack
\* has i < bridges.len(), the indices do not decrease from oldest to newest,
\* and no Empty checkpoint lies above an AtIndex checkpoint; hence rewind
\* never indexes bridges out of range.
C29_CheckpointsInRange ==
    /\ \A k \in 1..Len(checkpoints) :
           checkpoints[k] # Empty => checkpoints[k][2] < Len(bridges)
    /\ \A k \in 1..Len(checkpoints) : \A l \in (k + 1)..Len(checkpoints) :
           /\ (checkpoints[k] # Empty /\ checkpoints[l] # Empty) =>
                  checkpoints[k][2] <= checkpoints[l][2]
           /\ checkpoints[k] # Empty => checkpoints[l] # Empty
    /\ ~rewind(Tree).panic
    /\ ~(op = "rewind" /\ panicked)

C29_Witness ==
    /\ op = "rewind" /\ ret
    /\ Len(checkpoints) = 1
    /\ checkpoints[1] # Empty
    /\ checkpoints[1][2] = 0
    /\ Len(bridges) >= 2
    /\ DOMAIN saved # {}

\* C30: a Frontier and a BridgeTree fed the same sequence of append calls,
\* with witness, remove_witness and checkpoint calls interleaved on the tree,
\* return the same boolean from every append and the same root() after every
\* step; witness, remove_witness and checkpoint never change root().
C30_FrontierAgrees ==
    /\ [](op = "append" => ret = front_ret)
    /\ [](Frontier_root(front) = tree_root(Tree))
    /\ [][op' \in {"witness", "remove_witness", "checkpoint"} =>
             tree_root(Tree') = tree_root(Tree)]_vars

C30_Witness ==
    /\ op = "append"
    /\ ~ret /\ ~front_ret
    /\ Len(leaves) = Pow2(DEPTH)
    /\ Len(bridges) > 1
    /\ DOMAIN saved # {}
    /\ Len(checkpoints) > 0
    /\ Frontier_root(front) = tree_root(Tree)

\* floor(log2(p)) for p > 0: the k with 2^k <= p < 2^(k+1).
FloorLog2(p) == CHOOSE k \in 0..30 : p \div Pow2(k) = 1

\* The altitudes i >= 1 such that bit i of p is set.
SetBits(p) == {i \in 1..29 : p % Pow2(i + 1) >= Pow2(i)}

====
